---- MODULE Spec2Model ----
(***************************************************************************)
(* The slot allocation engine of the panel configurator: the panel_slots   *)
(* table, the device catalogue, and the handlers of routers/devices.py     *)
(* that place a device on a slot and remove it again.                      *)
(*                                                                         *)
(* devices.py names the slot's device reference device_type_id and the     *)
(* catalogue DeviceType; the model keeps those names.                      *)
(***************************************************************************)
EXTENDS Integers, Sequences, FiniteSets, TLC

VARIABLES
    panels,        \* panels table: panel id -> [template_id, rows, slots_per_row]
    templates,     \* panel_templates table: template id -> [rows, slots_per_row]
    slots,         \* panel_slots table: slot id -> row of the table
    device_types,  \* device catalogue: device type id -> slots_required
    last,          \* the last request handled and its response
    nreq,          \* number of requests handled since the run started
    reqs,          \* requests in flight (one per worker thread), by position
    wires,         \* wires table: wire id -> [panel_id, source_slot_id, destination_slot_id]
    rate_limiter,  \* the DigiKeyRateLimiter of the DigiKey client
    client,        \* the DigiKeyAPIClient: access token held, position in a retry
    now            \* the wall clock (datetime.now()), in ticks

vars == <<panels, templates, slots, device_types, last, nreq, reqs, wires,
          rate_limiter, client, now>>

-----------------------------------------------------------------------------
(* Dimensions and bounds of the model *)

\* rows of the panel the grid starts with: the default of PanelTemplate.rows
Rows == 2

\* slots in each row of that panel
SlotsPerRow == 3

\* requests handled in one run of the sequential specification
MaxRequests == 3

\* worker threads handling requests at the same time
Workers == {1, 2}

\* the catalogue: device type id -> slots_required (all widths >= 1)
Catalogue == [d \in {1, 2, 3} |-> d]

-----------------------------------------------------------------------------
(* Values *)

\* SQL NULL / Python None, per column
NoId == 0
NoText == "None"
NoNumber == 0

\* the columns of PanelSlotUpdate that a request may set, with the value the
\* model sends for each; device_type_id is sent separately
InstanceValue ==
    [device_label |-> "L1", current_setting |-> 16,
     custom_properties |-> "P", installed_date |-> 20240101]

InstanceFields == DOMAIN InstanceValue

\* slot_update.dict(exclude_unset=True): the client sent no instance field,
\* or all of them
Payloads ==
    { [f \in D |-> InstanceValue[f]] : D \in {{}, InstanceFields} }

-----------------------------------------------------------------------------
(* services/digikey_client.py: the rate limiter of the DigiKey client *)

\* timedelta(minutes=1) and timedelta(days=1), in ticks of the clock
Minute == 2
Day == 5

\* the limits of digikey_config.py, scaled to the clock
RATE_LIMIT_PER_MINUTE == 2
RATE_LIMIT_PER_DAY == 3

\* the clock stops here
MaxClock == 8

\* DigiKeyRateLimiter.__init__ at time t
DigiKeyRateLimiter(t) ==
    [requests_per_minute |-> RATE_LIMIT_PER_MINUTE,
     requests_per_day |-> RATE_LIMIT_PER_DAY,
     minute_requests |-> <<>>,
     daily_requests |-> 0,
     daily_reset_time |-> t + Day]

\* DigiKeyAPIClient.__init__: no access token yet; pc is "retry" between the
\* sleep after a 429 and the recursive call
DigiKeyAPIClient == [access_token |-> FALSE, pc |-> "idle"]

-----------------------------------------------------------------------------
(* The panel_slots table *)

\* a new PanelSlot row as create_panel adds it; unset columns take the
\* column defaults of the model class
NewSlot(id, panel_id, slot_number, row, col) ==
    [id |-> id, panel_id |-> panel_id, slot_number |-> slot_number,
     row |-> row, column |-> col,
     device_type_id |-> NoId, device_label |-> NoText,
     current_setting |-> NoNumber, custom_properties |-> NoText,
     is_occupied |-> FALSE, spans_slots |-> 1, installed_date |-> NoNumber]

\* SeedSlots numbering the slots of a panel from 0 instead of from 1
SeedSlots_zero_based(panel_id, r, n, first_id) ==
    [id \in first_id .. (first_id + r * n - 1) |->
        LET k == id - first_id
        IN  NewSlot(id, panel_id, k, (k \div n) + 1, (k % n) + 1)]

\* the slots create_panel seeds for a panel of r rows of n slots, with ids
\* following on from first_id - 1
SeedSlots(panel_id, r, n, first_id) ==
    [id \in first_id .. (first_id + r * n - 1) |->
        LET k == id - first_id
        IN  NewSlot(id, panel_id, k + 1, (k \div n) + 1, (k % n) + 1)]

RECURSIVE OrderByColumn(_, _)
\* .order_by(PanelSlot.column).all() over the set S of slot ids of table tbl
OrderByColumn(tbl, S) ==
    IF S = {} THEN <<>>
    ELSE LET m == CHOOSE x \in S : \A y \in S : tbl[x].column <= tbl[y].column
         IN  <<m>> \o OrderByColumn(tbl, S \ {m})

\* the row query filtering on the row number alone, not on the panel
RowOf_any_panel(tbl, slot_id) ==
    OrderByColumn(tbl, {x \in DOMAIN tbl : tbl[x].row = tbl[slot_id].row})

\* the row query: every slot id of the panel and row of slot_id, by column
RowOf(tbl, slot_id) ==
    OrderByColumn(tbl, {x \in DOMAIN tbl :
                          /\ tbl[x].panel_id = tbl[slot_id].panel_id
                          /\ tbl[x].row = tbl[slot_id].row})

\* the enumerate loop: the 0-based index of slot_id in panel_slots
SlotIndex(panel_slots, slot_id) ==
    (CHOOSE i \in 1 .. Len(panel_slots) : panel_slots[i] = slot_id) - 1

Min(a, b) == IF a < b THEN a ELSE b

-----------------------------------------------------------------------------
(* routers/devices.py *)

\* can_place_device_at_slot without its row-length test (line 67), scanning
\* only the slots the row has
can_place_without_length_test(tbl, dts, slot_id, device_type_id) ==
    IF slot_id \notin DOMAIN tbl THEN FALSE
    ELSE IF device_type_id \notin DOMAIN dts THEN FALSE
    ELSE LET slots_required == dts[device_type_id]
             panel_slots == RowOf(tbl, slot_id)
             slot_index == SlotIndex(panel_slots, slot_id)
             last_index == Min(slot_index + slots_required, Len(panel_slots)) - 1
         IN  IF slots_required = 1 THEN ~tbl[slot_id].is_occupied
             ELSE \A i \in slot_index .. last_index :
                     ~tbl[panel_slots[i + 1]].is_occupied

\* can_place_device_at_slot with the row-length test of line 67 off by one
\* (>= for >)
can_place_strict_length(tbl, dts, slot_id, device_type_id) ==
    IF slot_id \notin DOMAIN tbl THEN FALSE
    ELSE IF device_type_id \notin DOMAIN dts THEN FALSE
    ELSE LET slots_required == dts[device_type_id]
             panel_slots == RowOf(tbl, slot_id)
             slot_index == SlotIndex(panel_slots, slot_id)
         IN  IF slots_required = 1 THEN ~tbl[slot_id].is_occupied
             ELSE IF slot_index + slots_required >= Len(panel_slots) THEN FALSE
             ELSE \A i \in slot_index .. (slot_index + slots_required - 1) :
                     ~tbl[panel_slots[i + 1]].is_occupied

\* can_place_device_at_slot(db, slot_id, device_type_id) on table tbl and
\* catalogue dts
can_place_device_at_slot(tbl, dts, slot_id, device_type_id) ==
    IF slot_id \notin DOMAIN tbl THEN FALSE
    ELSE IF device_type_id \notin DOMAIN dts THEN FALSE
    ELSE LET slots_required == dts[device_type_id]
             panel_slots == RowOf(tbl, slot_id)
             slot_index == SlotIndex(panel_slots, slot_id)
         IN  IF slots_required = 1 THEN ~tbl[slot_id].is_occupied
             ELSE IF slot_index + slots_required > Len(panel_slots) THEN FALSE
             ELSE \A i \in slot_index .. (slot_index + slots_required - 1) :
                     ~tbl[panel_slots[i + 1]].is_occupied

\* ClearSlot marking the freed slot as a secondary slot (spans_slots = 0)
\* instead of restoring the default span
ClearSlot_zero_span(s) ==
    [s EXCEPT !.device_type_id = NoId, !.device_label = NoText,
              !.current_setting = NoNumber, !.is_occupied = FALSE,
              !.spans_slots = 0]

\* the columns remove_device_from_slot resets on one row
ClearSlot(s) ==
    [s EXCEPT !.device_type_id = NoId, !.device_label = NoText,
              !.current_setting = NoNumber, !.is_occupied = FALSE,
              !.spans_slots = 1]

\* remove_device_from_slot clearing one slot fewer than the recorded width
\* (the range of line 161 ending one earlier)
remove_device_short_by_one(tbl, slot_id) ==
    LET db_slot == tbl[slot_id]
        panel_slots == RowOf(tbl, slot_id)
        slot_index == SlotIndex(panel_slots, slot_id)
        last_index == Min(slot_index + db_slot.spans_slots - 1, Len(panel_slots)) - 1
        cleared == {panel_slots[i + 1] : i \in slot_index .. last_index}
    IN  IF db_slot.is_occupied /\ db_slot.spans_slots > 1
        THEN [x \in DOMAIN tbl |->
                IF x \in cleared THEN ClearSlot(tbl[x]) ELSE tbl[x]]
        ELSE [tbl EXCEPT ![slot_id] = ClearSlot(db_slot)]

\* remove_device_from_slot(slot_id, db) for a slot_id of the table: the
\* table it commits
remove_device_from_slot(tbl, slot_id) ==
    LET db_slot == tbl[slot_id]
        panel_slots == RowOf(tbl, slot_id)
        slot_index == SlotIndex(panel_slots, slot_id)
        last_index == Min(slot_index + db_slot.spans_slots, Len(panel_slots)) - 1
        cleared == {panel_slots[i + 1] : i \in slot_index .. last_index}
    IN  IF db_slot.is_occupied /\ db_slot.spans_slots > 1
        THEN [x \in DOMAIN tbl |->
                IF x \in cleared THEN ClearSlot(tbl[x]) ELSE tbl[x]]
        ELSE [tbl EXCEPT ![slot_id] = ClearSlot(db_slot)]

\* the setattr loop of update_panel_slot: every field the client sent that
\* the row has is copied onto the row
SetFields(s, update) ==
    [f \in DOMAIN s |-> IF f \in DOMAIN update THEN update[f] ELSE s[f]]

\* the secondary slot update_panel_slot writes
SecondarySlot(s) ==
    [s EXCEPT !.is_occupied = TRUE, !.device_type_id = NoId, !.spans_slots = 0]

\* write_device_slots marking one slot more than the device is wide (the
\* range of line 123 ending one later)
write_device_slots_one_more(tbl, dts, slot_id, update) ==
    LET slots_required == dts[update.device_type_id]
        primary == [SetFields(tbl[slot_id], update) EXCEPT
                       !.is_occupied = TRUE, !.spans_slots = slots_required]
        panel_slots == RowOf(tbl, slot_id)
        slot_index == SlotIndex(panel_slots, slot_id)
        last_index == Min(slot_index + slots_required + 1, Len(panel_slots)) - 1
        additional == IF slots_required > 1
                      THEN {panel_slots[i + 1] : i \in (slot_index + 1) .. last_index}
                      ELSE {}
    IN  [x \in DOMAIN tbl |->
            IF x = slot_id THEN primary
            ELSE IF x \in additional THEN SecondarySlot(tbl[x])
            ELSE tbl[x]]

\* update_panel_slot after its clean-up: the primary slot and the
\* additional slots it writes
write_device_slots(tbl, dts, slot_id, update) ==
    LET slots_required == dts[update.device_type_id]
        primary == [SetFields(tbl[slot_id], update) EXCEPT
                       !.is_occupied = TRUE, !.spans_slots = slots_required]
        panel_slots == RowOf(tbl, slot_id)
        slot_index == SlotIndex(panel_slots, slot_id)
        last_index == Min(slot_index + slots_required, Len(panel_slots)) - 1
        additional == IF slots_required > 1
                      THEN {panel_slots[i + 1] : i \in (slot_index + 1) .. last_index}
                      ELSE {}
    IN  [x \in DOMAIN tbl |->
            IF x = slot_id THEN primary
            ELSE IF x \in additional THEN SecondarySlot(tbl[x])
            ELSE tbl[x]]

\* slot_update.dict(exclude_unset=True) of a request placing device_type_id
UpdateOf(device_type_id, payload) ==
    [f \in DOMAIN payload \cup {"device_type_id"} |->
        IF f = "device_type_id" THEN device_type_id ELSE payload[f]]

-----------------------------------------------------------------------------
(* Requests *)

\* ids a request may name: every slot of the grid and one that does not exist
SlotIdInputs == 1 .. (Rows * SlotsPerRow + 1)

\* device type ids a request may name: the catalogue and one not in it
DeviceIdInputs == DOMAIN Catalogue \cup {9}

\* what the client gets back: the handler that answered, the HTTP status and,
\* from check_device_placement, the can_place flag
Response(op, status, can_place) ==
    [op |-> op, status |-> status, can_place |-> can_place]

\* an answer with its body: detail is the text of the error or message,
\* returned the ids of the slot rows the body carries
Answer(op, status, detail, returned) ==
    [op |-> op, status |-> status, can_place |-> FALSE,
     detail |-> detail, returned |-> returned]

\* what `last` keeps of an answer
StatusLine(answer) == Response(answer.op, answer.status, answer.can_place)

\* raise HTTPException(status_code=..., detail=...)
HTTPException(op, status_code, detail) == Answer(op, status_code, detail, {})

\* update_panel_slot answering with a message, as the DELETE endpoint does,
\* instead of with the slot row
SlotResponse_message(op, slot_id) ==
    Answer(op, 200, "Device removed from slot", {})

\* return db_slot under response_model=PanelSlotSchema: the body is the one
\* row of the slot the request addresses
SlotResponse(op, slot_id) == Answer(op, 200, NoText, {slot_id})

\* return {"message": ...}: the body carries a text and no slot
MessageResponse(op, message) == Answer(op, 200, message, {})

\* the text update_panel_slot gives every placement it rejects
CannotPlaceDetail ==
    "Cannot place device at this slot - not enough consecutive free slots"

\* update_panel_slot answering a place on an occupied slot with its own
\* status and text
PlaceReply_conflict_status(tbl, dts, slot_id, device_type_id) ==
    IF slot_id \notin DOMAIN tbl
    THEN HTTPException("place", 404, "Panel slot not found")
    ELSE IF device_type_id \notin DOMAIN dts
    THEN HTTPException("place", 404, "Device type not found")
    ELSE IF tbl[slot_id].is_occupied
    THEN HTTPException("place", 409, "Slot occupied")
    ELSE IF ~can_place_device_at_slot(tbl, dts, slot_id, device_type_id)
    THEN HTTPException("place", 400, CannotPlaceDetail)
    ELSE SlotResponse("place", slot_id)

\* what update_panel_slot answers a request placing device_type_id at
\* slot_id on table tbl (the raises of lines 82, 89 and 93, else line 135)
PlaceReply(tbl, dts, slot_id, device_type_id) ==
    IF slot_id \notin DOMAIN tbl
    THEN HTTPException("place", 404, "Panel slot not found")
    ELSE IF device_type_id \notin DOMAIN dts
    THEN HTTPException("place", 404, "Device type not found")
    ELSE IF ~can_place_device_at_slot(tbl, dts, slot_id, device_type_id)
    THEN HTTPException("place", 400, CannotPlaceDetail)
    ELSE SlotResponse("place", slot_id)

\* what update_panel_slot answers a request without a device at slot_id
\* (the raise of line 82, else line 135)
UpdateRemoveReply(tbl, slot_id) ==
    IF slot_id \notin DOMAIN tbl
    THEN HTTPException("update_remove", 404, "Panel slot not found")
    ELSE SlotResponse("update_remove", slot_id)

\* what the endpoint remove_device_from_slot answers (the raise of line 142,
\* else line 177)
RemoveReply(tbl, slot_id) ==
    IF slot_id \notin DOMAIN tbl
    THEN HTTPException("remove", 404, "Panel slot not found")
    ELSE MessageResponse("remove", "Device removed from slot")

\* the panel_templates rows the database starts with: one of Rows x
\* SlotsPerRow slots and a single-row one
TemplateSeed ==
    [t \in {1, 2} |->
        [rows |-> IF t = 1 THEN Rows ELSE 1, slots_per_row |-> SlotsPerRow]]

\* the Panel row create_panel adds for a request naming template_id
\* (Panel(**panel_data)); of the columns of Panel only template_id is state of
\* the model
NewPanel(template_id) == [template_id |-> template_id]

Idle ==
    [pc |-> "idle", slot_id |-> 0, update |-> <<>>, status |-> 0,
     can_place |-> FALSE]

Init ==
    /\ templates = TemplateSeed
    /\ panels = [p \in {1} |-> NewPanel(1)]
    /\ slots = SeedSlots(1, Rows, SlotsPerRow, 1)
    /\ device_types = Catalogue
    /\ last = Response("none", 0, FALSE)
    /\ nreq = 0
    /\ reqs = [w \in Workers |-> Idle]
    /\ wires = << >>
    /\ rate_limiter = DigiKeyRateLimiter(0)
    /\ client = DigiKeyAPIClient
    /\ now = 0

\* update_panel_slot running its clean-up (line 96) before the check of
\* line 92 instead of after it
place_clearing_before_check(slot_id, device_type_id, payload) ==
    /\ nreq < MaxRequests
    /\ nreq' = nreq + 1
    /\ last' = StatusLine(PlaceReply(slots, device_types, slot_id, device_type_id))
    /\ IF slot_id \notin DOMAIN slots
       THEN UNCHANGED slots
       ELSE IF device_type_id \notin DOMAIN device_types
       THEN UNCHANGED slots
       ELSE IF ~can_place_device_at_slot(slots, device_types, slot_id, device_type_id)
       THEN slots' = remove_device_from_slot(slots, slot_id)
       ELSE slots' = write_device_slots(
                         remove_device_from_slot(slots, slot_id),
                         device_types, slot_id,
                         UpdateOf(device_type_id, payload))
    /\ UNCHANGED <<panels, templates, device_types, reqs, wires,
                 rate_limiter, client, now>>

\* PUT /slots/{slot_id} with a device: update_panel_slot, whole handler
UpdatePanelSlotPlace(slot_id, device_type_id, payload) ==
    /\ nreq < MaxRequests
    /\ nreq' = nreq + 1
    /\ last' = StatusLine(PlaceReply(slots, device_types, slot_id, device_type_id))
    /\ IF slot_id \notin DOMAIN slots
       THEN UNCHANGED slots
       ELSE IF device_type_id \notin DOMAIN device_types
       THEN UNCHANGED slots
       ELSE IF ~can_place_device_at_slot(slots, device_types, slot_id, device_type_id)
       THEN UNCHANGED slots
       ELSE slots' = write_device_slots(
                         remove_device_from_slot(slots, slot_id),
                         device_types, slot_id,
                         UpdateOf(device_type_id, payload))
    /\ UNCHANGED <<panels, templates, device_types, reqs, wires,
                 rate_limiter, client, now>>

\* PUT /slots/{slot_id} without a device: update_panel_slot, else branch
UpdatePanelSlotRemove(slot_id) ==
    /\ nreq < MaxRequests
    /\ nreq' = nreq + 1
    /\ last' = StatusLine(UpdateRemoveReply(slots, slot_id))
    /\ IF slot_id \notin DOMAIN slots
       THEN UNCHANGED slots
       ELSE slots' = remove_device_from_slot(slots, slot_id)
    /\ UNCHANGED <<panels, templates, device_types, reqs, wires,
                 rate_limiter, client, now>>

\* DELETE /slots/{slot_id}/device: remove_device_from_slot as an endpoint
RemoveDeviceFromSlot(slot_id) ==
    /\ nreq < MaxRequests
    /\ nreq' = nreq + 1
    /\ last' = StatusLine(RemoveReply(slots, slot_id))
    /\ IF slot_id \notin DOMAIN slots
       THEN UNCHANGED slots
       ELSE slots' = remove_device_from_slot(slots, slot_id)
    /\ UNCHANGED <<panels, templates, device_types, reqs, wires,
                 rate_limiter, client, now>>

\* check_device_placement reserving the slot it found placeable
CheckDevicePlacement_reserving(slot_id, device_type_id) ==
    /\ nreq < MaxRequests
    /\ nreq' = nreq + 1
    /\ last' = Response("can_place", 200,
                  can_place_device_at_slot(slots, device_types, slot_id, device_type_id))
    /\ slots' = IF last'.can_place
                THEN [slots EXCEPT ![slot_id].is_occupied = TRUE]
                ELSE slots
    /\ UNCHANGED <<panels, templates, device_types, reqs, wires,
                 rate_limiter, client, now>>

\* GET /slots/{slot_id}/can-place/{device_type_id}: check_device_placement
CheckDevicePlacement(slot_id, device_type_id) ==
    /\ nreq < MaxRequests
    /\ nreq' = nreq + 1
    /\ last' = Response("can_place", 200,
                  can_place_device_at_slot(slots, device_types, slot_id, device_type_id))
    /\ UNCHANGED <<panels, templates, slots, device_types, reqs, wires,
                 rate_limiter, client, now>>

Next ==
    \/ \E s \in SlotIdInputs, d \in DeviceIdInputs, p \in Payloads :
          UpdatePanelSlotPlace(s, d, p)
    \/ \E s \in SlotIdInputs : UpdatePanelSlotRemove(s)
    \/ \E s \in SlotIdInputs : RemoveDeviceFromSlot(s)
    \/ \E s \in SlotIdInputs, d \in DeviceIdInputs : CheckDevicePlacement(s, d)

\* requests handled one after another
Spec == Init /\ [][Next]_vars

\* the grid of Init after one successful placement on it
InitPlaced ==
    /\ templates = TemplateSeed
    /\ panels = [p \in {1} |-> NewPanel(1)]
    /\ \E s \in SlotIdInputs, d \in DOMAIN Catalogue, p \in Payloads :
          LET seeded == SeedSlots(1, Rows, SlotsPerRow, 1)
          IN  /\ can_place_device_at_slot(seeded, Catalogue, s, d)
              /\ slots = write_device_slots(
                             remove_device_from_slot(seeded, s),
                             Catalogue, s, UpdateOf(d, p))
              /\ last = StatusLine(SlotResponse("place", s))
    /\ device_types = Catalogue
    /\ nreq = 0
    /\ reqs = [w \in Workers |-> Idle]
    /\ wires = << >>
    /\ rate_limiter = DigiKeyRateLimiter(0)
    /\ client = DigiKeyAPIClient
    /\ now = 0

\* requests handled one after another, MaxRequests of them following a
\* first successful placement
SpecPlaced == InitPlaced /\ [][Next]_vars

-----------------------------------------------------------------------------
(* Requests handled by worker threads at the same time.  update_panel_slot  *)
(* takes no lock: it reads (lines 80-93), commits the clean-up inside       *)
(* remove_device_from_slot (line 96, commit at line 176), then writes and   *)
(* commits (lines 98-133).  Each of the three is one step of a worker.      *)

\* GET /slots/{slot_id}/can-place/{device_type_id}: check_device_placement
\* answering worker w, which keeps the advice for the place request it sends
\* next
QueryCanPlace(w, slot_id, device_type_id) ==
    /\ reqs[w].pc = "idle"
    /\ reqs' = [reqs EXCEPT ![w] =
                  [pc |-> "advised",
                   slot_id |-> slot_id,
                   update |-> UpdateOf(device_type_id, <<>>),
                   status |-> 200,
                   can_place |-> can_place_device_at_slot(slots, device_types,
                                                          slot_id, device_type_id)]]
    /\ UNCHANGED <<panels, templates, slots, device_types, last, nreq, wires,
                 rate_limiter, client, now>>

\* update_panel_slot skipping its own check when the caller was advised that
\* the device can be placed
BeginPlace_trusting_advice(w, slot_id, device_type_id, payload) ==
    /\ \/ reqs[w].pc = "idle"
       \/ /\ reqs[w].pc = "advised"
          /\ slot_id = reqs[w].slot_id
          /\ device_type_id = reqs[w].update.device_type_id
    /\ LET status ==
             IF slot_id \notin DOMAIN slots THEN 404
             ELSE IF device_type_id \notin DOMAIN device_types THEN 404
             ELSE IF reqs[w].pc = "advised" /\ reqs[w].can_place THEN 0
             ELSE IF ~can_place_device_at_slot(slots, device_types, slot_id,
                                               device_type_id) THEN 400
             ELSE 0
       IN  reqs' = [reqs EXCEPT ![w] =
                      [pc |-> IF status = 0 THEN "checked" ELSE "done",
                       slot_id |-> slot_id,
                       update |-> UpdateOf(device_type_id, payload),
                       status |-> status,
                       can_place |-> reqs[w].can_place]]
    /\ UNCHANGED <<panels, templates, slots, device_types, last, nreq, wires,
                 rate_limiter, client, now>>

\* update_panel_slot lines 80-93: look the slot and the device up and check.
\* A worker that was advised places what it asked about
BeginPlace(w, slot_id, device_type_id, payload) ==
    /\ \/ reqs[w].pc = "idle"
       \/ /\ reqs[w].pc = "advised"
          /\ slot_id = reqs[w].slot_id
          /\ device_type_id = reqs[w].update.device_type_id
    /\ LET status ==
             IF slot_id \notin DOMAIN slots THEN 404
             ELSE IF device_type_id \notin DOMAIN device_types THEN 404
             ELSE IF ~can_place_device_at_slot(slots, device_types, slot_id,
                                               device_type_id) THEN 400
             ELSE 0
       IN  reqs' = [reqs EXCEPT ![w] =
                      [pc |-> IF status = 0 THEN "checked" ELSE "done",
                       slot_id |-> slot_id,
                       update |-> UpdateOf(device_type_id, payload),
                       status |-> status,
                       can_place |-> reqs[w].can_place]]
    /\ UNCHANGED <<panels, templates, slots, device_types, last, nreq, wires,
                 rate_limiter, client, now>>

\* update_panel_slot line 96: the clean-up, committed by the callee
ClearStep(w) ==
    /\ reqs[w].pc = "checked"
    /\ slots' = remove_device_from_slot(slots, reqs[w].slot_id)
    /\ reqs' = [reqs EXCEPT ![w].pc = "cleared"]
    /\ UNCHANGED <<panels, templates, device_types, last, nreq, wires,
                 rate_limiter, client, now>>

\* update_panel_slot lines 98-135: write the slots, commit, respond
WriteStep(w) ==
    /\ reqs[w].pc = "cleared"
    /\ slots' = write_device_slots(slots, device_types, reqs[w].slot_id,
                                   reqs[w].update)
    /\ reqs' = [reqs EXCEPT ![w].pc = "done", ![w].status = 200]
    /\ UNCHANGED <<panels, templates, device_types, last, nreq, wires,
                 rate_limiter, client, now>>

NextConc ==
    \/ \E w \in Workers, s \in SlotIdInputs, d \in DeviceIdInputs :
          QueryCanPlace(w, s, d)
    \/ \E w \in Workers, s \in SlotIdInputs, d \in DeviceIdInputs, p \in Payloads :
          BeginPlace(w, s, d, p)
    \/ \E w \in Workers : ClearStep(w)
    \/ \E w \in Workers : WriteStep(w)

\* one place request per worker thread, after a can-place query or without
\* one, the threads interleaving
SpecConc == Init /\ [][NextConc]_vars

-----------------------------------------------------------------------------
(* routers/panels.py and the panel template update of routers/templates.py *)

\* the id the database gives the next row of a table with ids S
NextId(S) == IF S = {} THEN 1 ELSE (CHOOSE m \in S : \A y \in S : y <= m) + 1

\* dimensions a template update may send
RowsInputs == 0 .. Rows
SlotsPerRowInputs == 0 .. SlotsPerRow

\* template.model_dump(exclude_unset=True), restricted to the dimensions
TemplateUpdates ==
    { [f \in D |-> IF f = "rows" THEN r ELSE n] :
         D \in SUBSET {"rows", "slots_per_row"},
         r \in RowsInputs, n \in SlotsPerRowInputs }

\* the slots create_panel adds to table tbl for the new panel panel_id
create_panel_slots(tbl, panel_id, r, n) ==
    LET seeded == SeedSlots(panel_id, r, n, NextId(DOMAIN tbl))
    IN  [x \in DOMAIN tbl \cup DOMAIN seeded |->
            IF x \in DOMAIN tbl THEN tbl[x] ELSE seeded[x]]

\* the rows and slots_per_row of a panel: those of its template
PanelRows(p) == templates[panels[p].template_id].rows
PanelSlotsPerRow(p) == templates[panels[p].template_id].slots_per_row

\* POST /api/panels: create_panel, whole handler.  PanelCreate carries
\* template_id and no dimensions: panel.rows and panel.slots_per_row are read
\* as those of the template the request names
CreatePanel(template_id) ==
    /\ nreq < MaxRequests
    /\ nreq' = nreq + 1
    /\ LET panel_id == NextId(DOMAIN panels)
           db_panel == NewPanel(template_id)
       IN  /\ panels' = [p \in DOMAIN panels \cup {panel_id} |->
                           IF p = panel_id THEN db_panel ELSE panels[p]]
           /\ slots' = create_panel_slots(slots, panel_id,
                                          templates[template_id].rows,
                                          templates[template_id].slots_per_row)
    /\ last' = Response("create_panel", 200, FALSE)
    /\ UNCHANGED <<templates, device_types, reqs, wires,
                 rate_limiter, client, now>>

\* PUT /api/panels/{panel_id}: update_panel; of the fields of PanelUpdate
\* only template_id is state of the model
UpdatePanel(panel_id, template_id) ==
    /\ nreq < MaxRequests
    /\ nreq' = nreq + 1
    /\ IF panel_id \notin DOMAIN panels
       THEN /\ last' = Response("update_panel", 404, FALSE)
            /\ UNCHANGED panels
       ELSE /\ panels' = [panels EXCEPT ![panel_id].template_id = template_id]
            /\ last' = Response("update_panel", 200, FALSE)
    /\ UNCHANGED <<templates, slots, device_types, reqs, wires,
                 rate_limiter, client, now>>

\* DELETE /api/panels/{panel_id}: delete_panel.  Panel.slots declares no
\* delete cascade, so the session sets panel_id of the panel's slots to NULL
\* and deletes the panel row alone
DeletePanel(panel_id) ==
    /\ nreq < MaxRequests
    /\ nreq' = nreq + 1
    /\ IF panel_id \notin DOMAIN panels
       THEN /\ last' = Response("delete_panel", 404, FALSE)
            /\ UNCHANGED <<panels, slots, wires>>
       ELSE /\ panels' = [p \in DOMAIN panels \ {panel_id} |-> panels[p]]
            /\ slots' = [x \in DOMAIN slots |->
                           IF slots[x].panel_id = panel_id
                           THEN [slots[x] EXCEPT !.panel_id = NoId]
                           ELSE slots[x]]
            /\ wires' = [i \in DOMAIN wires |->
                           IF wires[i].panel_id = panel_id
                           THEN [wires[i] EXCEPT !.panel_id = NoId]
                           ELSE wires[i]]
            /\ last' = Response("delete_panel", 200, FALSE)
    /\ UNCHANGED <<templates, device_types, reqs,
                 rate_limiter, client, now>>

\* PUT /api/templates/panel-templates/{template_id}: update_panel_template
UpdatePanelTemplate(template_id, update) ==
    /\ nreq < MaxRequests
    /\ nreq' = nreq + 1
    /\ IF template_id \notin DOMAIN templates
       THEN /\ last' = Response("update_panel_template", 404, FALSE)
            /\ UNCHANGED templates
       ELSE /\ templates' = [templates EXCEPT
                               ![template_id] = SetFields(templates[template_id], update)]
            /\ last' = Response("update_panel_template", 200, FALSE)
    /\ UNCHANGED <<panels, slots, device_types, reqs, wires,
                 rate_limiter, client, now>>

\* the database before any panel is created
InitPanels ==
    /\ templates = TemplateSeed
    /\ panels = [p \in {} |-> NewPanel(1)]
    /\ slots = [x \in {} |-> NewSlot(x, 0, 0, 0, 0)]
    /\ device_types = Catalogue
    /\ last = Response("none", 0, FALSE)
    /\ nreq = 0
    /\ reqs = [w \in Workers |-> Idle]
    /\ wires = << >>
    /\ rate_limiter = DigiKeyRateLimiter(0)
    /\ client = DigiKeyAPIClient
    /\ now = 0

NextPanels ==
    \/ \E t \in DOMAIN templates : CreatePanel(t)
    \/ \E p \in 1 .. MaxRequests, t \in DOMAIN templates : UpdatePanel(p, t)
    \/ \E p \in 1 .. MaxRequests : DeletePanel(p)
    \/ \E t \in DOMAIN templates \cup {9}, u \in TemplateUpdates :
          UpdatePanelTemplate(t, u)

\* panel and panel template requests handled one after another
SpecPanels == InitPanels /\ [][NextPanels]_vars

\* the database holding two panels made by create_panel: panel 1 from
\* template 1 and panel 2 from the single-row template 2
InitTwoPanels ==
    /\ templates = TemplateSeed
    /\ panels = [p \in {1, 2} |-> NewPanel(p)]
    /\ slots = create_panel_slots(
                  create_panel_slots([x \in {} |-> NewSlot(x, 0, 0, 0, 0)], 1,
                                     TemplateSeed[1].rows,
                                     TemplateSeed[1].slots_per_row),
                  2, TemplateSeed[2].rows, TemplateSeed[2].slots_per_row)
    /\ device_types = Catalogue
    /\ last = Response("none", 0, FALSE)
    /\ nreq = 0
    /\ reqs = [w \in Workers |-> Idle]
    /\ wires = << >>
    /\ rate_limiter = DigiKeyRateLimiter(0)
    /\ client = DigiKeyAPIClient
    /\ now = 0

\* slot requests handled one after another on a database of two panels
SpecTwoPanels == InitTwoPanels /\ [][Next]_vars

\* GET /api/panels/{panel_id}: get_panel, answering with the panel and the
\* slots the database holds for it at that moment
GetPanel(panel_id) ==
    /\ nreq < MaxRequests
    /\ nreq' = nreq + 1
    /\ last' = Response("get_panel",
                        IF panel_id \in DOMAIN panels THEN 200 ELSE 404, FALSE)
    /\ UNCHANGED <<panels, templates, slots, device_types, reqs, wires,
                 rate_limiter, client, now>>

\* create_panel lines 28-32 on worker w: the Panel row is added and committed
BeginCreatePanel(w, template_id) ==
    /\ reqs[w].pc = "idle"
    /\ LET panel_id == NextId(DOMAIN panels)
       IN  /\ panels' = [p \in DOMAIN panels \cup {panel_id} |->
                           IF p = panel_id THEN NewPanel(template_id)
                           ELSE panels[p]]
           /\ reqs' = [reqs EXCEPT ![w] =
                          [Idle EXCEPT !.pc = "panel_committed",
                                       !.update = [panel_id |-> panel_id,
                                                   template_id |-> template_id]]]
    /\ UNCHANGED <<templates, slots, device_types, last, nreq, wires,
                 rate_limiter, client, now>>

\* create_panel lines 34-52 on worker w: the slots are added and committed
SeedPanelSlots(w) ==
    /\ reqs[w].pc = "panel_committed"
    /\ slots' = create_panel_slots(slots, reqs[w].update.panel_id,
                                   templates[reqs[w].update.template_id].rows,
                                   templates[reqs[w].update.template_id].slots_per_row)
    /\ reqs' = [reqs EXCEPT ![w].pc = "done", ![w].status = 200]
    /\ UNCHANGED <<panels, templates, device_types, last, nreq, wires,
                 rate_limiter, client, now>>

NextCreateConc ==
    \/ \E w \in Workers, t \in DOMAIN templates : BeginCreatePanel(w, t)
    \/ \E w \in Workers : SeedPanelSlots(w)
    \/ \E p \in 1 .. MaxRequests : GetPanel(p)

\* create_panel requests on worker threads, interleaved with get_panel
\* requests
SpecCreateConc == InitPanels /\ [][NextCreateConc]_vars

\* slots_required values a client may send: DeviceTypeBase declares a plain
\* int
WidthInputs == {-1, 0, 1, 2}

\* POST /types: create_device_type
CreateDeviceType(slots_required) ==
    /\ nreq < MaxRequests
    /\ nreq' = nreq + 1
    /\ LET id == NextId(DOMAIN device_types)
       IN  device_types' = [d \in DOMAIN device_types \cup {id} |->
                              IF d = id THEN slots_required ELSE device_types[d]]
    /\ last' = Response("create_device_type", 200, FALSE)
    /\ UNCHANGED <<panels, templates, slots, reqs, wires,
                 rate_limiter, client, now>>

NextCatalogue ==
    \/ \E w \in WidthInputs : CreateDeviceType(w)
    \/ \E s \in SlotIdInputs, d \in DOMAIN device_types \cup {9}, p \in Payloads :
          UpdatePanelSlotPlace(s, d, p)
    \/ \E s \in SlotIdInputs : UpdatePanelSlotRemove(s)
    \/ \E s \in SlotIdInputs : RemoveDeviceFromSlot(s)
    \/ \E s \in SlotIdInputs, d \in DOMAIN device_types \cup {9} :
          CheckDevicePlacement(s, d)

\* slot requests and device type creations handled one after another
SpecCatalogue == Init /\ [][NextCatalogue]_vars

-----------------------------------------------------------------------------
(* routers/wiring.py: wires between the slots of a panel *)

\* the panel ids a wiring request names: the two panels and one that is absent
WirePanelInputs == {1, 2, 3}

\* the slot ids a wiring request names: none, the first slot of either panel,
\* and an id no slot has
WireSlotInputs == {NoId, 1, Rows * SlotsPerRow + 1, 2 * Rows * SlotsPerRow + 1}

\* the bodies of PUT /wires/{id}: the slot columns the request sets
\* (wire_update.dict(exclude_unset=True))
WireUpdates ==
    UNION {[F -> WireSlotInputs] :
              F \in SUBSET {"source_slot_id", "destination_slot_id"}}

\* the Wire row create_wire adds (Wire(**wire.dict()))
NewWire(panel_id, source_slot_id, destination_slot_id) ==
    [panel_id |-> panel_id,
     source_slot_id |-> source_slot_id,
     destination_slot_id |-> destination_slot_id]

\* POST /wires/
CreateWire(panel_id, source_slot_id, destination_slot_id) ==
    /\ nreq < MaxRequests
    /\ nreq' = nreq + 1
    /\ IF panel_id \notin DOMAIN panels
       THEN /\ last' = Response("create_wire", 404, FALSE)
            /\ UNCHANGED wires
       ELSE IF source_slot_id # NoId /\ source_slot_id \notin DOMAIN slots
       THEN /\ last' = Response("create_wire", 404, FALSE)
            /\ UNCHANGED wires
       ELSE IF destination_slot_id # NoId
               /\ destination_slot_id \notin DOMAIN slots
       THEN /\ last' = Response("create_wire", 404, FALSE)
            /\ UNCHANGED wires
       ELSE /\ wires' = [i \in DOMAIN wires \cup {NextId(DOMAIN wires)} |->
                           IF i \in DOMAIN wires
                           THEN wires[i]
                           ELSE NewWire(panel_id, source_slot_id,
                                        destination_slot_id)]
            /\ last' = Response("create_wire", 200, FALSE)
    /\ UNCHANGED <<panels, templates, slots, device_types, reqs,
                 rate_limiter, client, now>>

\* PUT /wires/{wire_id}
UpdateWire(wire_id, wire_update) ==
    /\ nreq < MaxRequests
    /\ nreq' = nreq + 1
    /\ IF wire_id \notin DOMAIN wires
       THEN /\ last' = Response("update_wire", 404, FALSE)
            /\ UNCHANGED wires
       ELSE /\ wires' = [wires EXCEPT ![wire_id] =
                           [f \in DOMAIN wires[wire_id] |->
                               IF f \in DOMAIN wire_update
                               THEN wire_update[f]
                               ELSE wires[wire_id][f]]]
            /\ last' = Response("update_wire", 200, FALSE)
    /\ UNCHANGED <<panels, templates, slots, device_types, reqs,
                 rate_limiter, client, now>>

NextWires ==
    \/ \E p \in WirePanelInputs, a \in WireSlotInputs, b \in WireSlotInputs :
          CreateWire(p, a, b)
    \/ \E i \in {1, 2}, u \in WireUpdates : UpdateWire(i, u)
    \/ \E p \in WirePanelInputs : DeletePanel(p)

\* wiring and panel requests handled one after another on a database of two
\* panels
SpecWires == InitTwoPanels /\ [][NextWires]_vars

-----------------------------------------------------------------------------
(* services/digikey_client.py: requests to the DigiKey API *)

Max(a, b) == IF a >= b THEN a ELSE b

\* DigiKeyRateLimiter.can_make_request at time t: the limiter after the daily
\* reset and the cleaning of minute_requests, and the answer
can_make_request(limiter, t) ==
    LET reset == IF t > limiter.daily_reset_time
                 THEN [limiter EXCEPT !.daily_requests = 0,
                                      !.daily_reset_time = t + Day]
                 ELSE limiter
        cutoff == t - Minute
        cleaned == [reset EXCEPT !.minute_requests =
                      SelectSeq(reset.minute_requests,
                                LAMBDA req_time : req_time > cutoff)]
        minute_ok == Len(cleaned.minute_requests) < cleaned.requests_per_minute
        daily_ok == cleaned.daily_requests < cleaned.requests_per_day
    IN  [limiter |-> cleaned, answer |-> minute_ok /\ daily_ok]

\* DigiKeyRateLimiter.record_request at time t
record_request(limiter, t) ==
    [limiter EXCEPT !.minute_requests = Append(@, t),
                    !.daily_requests = @ + 1]

\* DigiKeyRateLimiter.wait_time at time t
wait_time(limiter, t) ==
    IF limiter.minute_requests = <<>> THEN 0
    ELSE LET oldest_request ==
                 CHOOSE r \in {limiter.minute_requests[i] : i \in DOMAIN limiter.minute_requests} :
                    \A q \in {limiter.minute_requests[i] : i \in DOMAIN limiter.minute_requests} : r <= q
             wait_until == oldest_request + Minute
         IN  Max(0, wait_until - t) + 1

\* DigiKeyAPIClient._wait_for_rate_limit at time t: the limiter afterwards and
\* the time the client has slept
wait_for_rate_limit(limiter, t) ==
    LET checked == can_make_request(limiter, t)
    IN  [limiter |-> checked.limiter,
         slept |-> IF checked.answer THEN 0
                   ELSE wait_time(checked.limiter, t)]

\* what session.request does: a response, a 429 response, or a
\* RequestException
Outcomes == {"ok", "429", "error"}

\* the Retry-After header of a 429 response, in ticks
RetryAfterInputs == {0, Minute}

\* time passes while the client is between calls
Tick ==
    /\ client.pc = "idle"
    /\ now < MaxClock
    /\ now' = now + 1
    /\ UNCHANGED <<panels, templates, slots, device_types, last, nreq, reqs,
                   wires, rate_limiter, client>>

\* DigiKeyAPIClient.authenticate_with_code: a token on success
AuthenticateWithCode(granted) ==
    /\ client.pc = "idle"
    /\ client' = IF granted THEN [client EXCEPT !.access_token = TRUE]
                 ELSE client
    /\ UNCHANGED <<panels, templates, slots, device_types, last, nreq, reqs,
                   wires, rate_limiter, now>>

\* DigiKeyAPIClient._make_api_request, up to its return or its recursive call
MakeApiRequest(outcome, retry_after) ==
    IF ~client.access_token
    THEN /\ client.pc = "idle"
         /\ UNCHANGED vars
    ELSE LET waited == wait_for_rate_limit(rate_limiter, now)
             sent_at == now + waited.slept
         IN  /\ sent_at + (IF outcome = "429" THEN retry_after ELSE 0)
                   <= MaxClock
             /\ rate_limiter' = IF outcome = "error" THEN waited.limiter
                                ELSE record_request(waited.limiter, sent_at)
             /\ now' = IF outcome = "429" THEN sent_at + retry_after
                       ELSE sent_at
             /\ client' = [client EXCEPT !.pc = IF outcome = "429"
                                                THEN "retry" ELSE "idle"]
             /\ UNCHANGED <<panels, templates, slots, device_types, last,
                            nreq, reqs, wires>>

NextDigiKey ==
    \/ Tick
    \/ \E granted \in BOOLEAN : AuthenticateWithCode(granted)
    \/ \E outcome \in Outcomes, retry_after \in RetryAfterInputs :
          MakeApiRequest(outcome, retry_after)

\* the DigiKey client used by one caller at a time
SpecDigiKey == Init /\ [][NextDigiKey]_vars

-----------------------------------------------------------------------------
(* Vocabulary of the properties *)

IsAnchor(s) == s.is_occupied /\ s.spans_slots >= 1

IsContinuation(s) == s.is_occupied /\ s.spans_slots = 0

SameRow(a, b) == a.panel_id = b.panel_id /\ a.row = b.row

\* the columns [column, column + width) an anchor declares
Range(a) == a.column .. (a.column + a.spans_slots - 1)

\* the slot ids of the span a request placing `update` at slot_id writes
SpanOf(tbl, dts, slot_id, update) ==
    {x \in DOMAIN tbl :
        /\ SameRow(tbl[x], tbl[slot_id])
        /\ tbl[x].column >= tbl[slot_id].column
        /\ tbl[x].column < tbl[slot_id].column + dts[update.device_type_id]}

\* the step just taken is a place request of device_type_id at slot_id
Places(slot_id, device_type_id) ==
    \E p \in Payloads : UpdatePanelSlotPlace(slot_id, device_type_id, p)

\* the step just taken is a removal request at slot_id, by either endpoint
Removes(slot_id) == UpdatePanelSlotRemove(slot_id) \/ RemoveDeviceFromSlot(slot_id)

-----------------------------------------------------------------------------
(* Properties *)

\* C1 (no overlap, I1): after any sequence of place and remove requests, the
\* ranges [column, column + width) of two distinct anchors of one row never
\* intersect.
NoOverlap ==
    \A a, b \in DOMAIN slots :
        (/\ a # b
         /\ IsAnchor(slots[a]) /\ IsAnchor(slots[b])
         /\ SameRow(slots[a], slots[b]))
        => Range(slots[a]) \cap Range(slots[b]) = {}

\* C2 (plan + apply is one critical section per panel): when the place
\* requests of two worker threads have both been answered, no two of them
\* that name spans sharing a slot have both succeeded, and the grid has no
\* overlapping anchors.
ConcurrentPlacementsExclusive ==
    (\A w \in Workers : reqs[w].pc = "done")
    => /\ \A v, w \in Workers :
            (v # w /\ reqs[v].status = 200 /\ reqs[w].status = 200)
            => SpanOf(slots, device_types, reqs[v].slot_id, reqs[v].update)
                 \cap SpanOf(slots, device_types, reqs[w].slot_id, reqs[w].update)
               = {}
       /\ NoOverlap

\* C3 (OrphanContinuation): a removal request aimed at a Continuation slot is
\* answered with a fault and changes no slot, and a Continuation slot becomes
\* free only in a step that also frees an anchor whose range covers it.
ContinuationRemovalIsFault ==
    [][\A x \in DOMAIN slots :
          /\ (Removes(x) /\ IsContinuation(slots[x]))
             => (last'.status # 200 /\ slots' = slots)
          /\ (IsContinuation(slots[x]) /\ ~slots'[x].is_occupied)
             => \E a \in DOMAIN slots :
                   /\ IsAnchor(slots[a]) /\ SameRow(slots[a], slots[x])
                   /\ slots[x].column \in Range(slots[a])
                   /\ ~slots'[a].is_occupied]_vars

\* C4 (anchor uniqueness, I3): an anchor of width w is the only anchor among
\* the w slots from its position on, and the other w - 1 of them are occupied
\* Continuation slots.
AnchorSpanIntact ==
    \A a \in DOMAIN slots :
        IsAnchor(slots[a]) =>
            \A c \in Range(slots[a]) \ {slots[a].column} :
                \E x \in DOMAIN slots :
                    /\ SameRow(slots[x], slots[a])
                    /\ slots[x].column = c
                    /\ IsContinuation(slots[x])

\* C5 (re-placement preserves width): a place request naming the device that
\* already anchors the target slot succeeds, and changes neither the set of
\* occupied slots, nor a recorded width, nor a slot other than the anchor.
ReplacementKeepsLayout ==
    [][\A x \in DOMAIN slots :
          (IsAnchor(slots[x]) /\ Places(x, slots[x].device_type_id))
          => /\ last'.status = 200
             /\ slots'[x].device_type_id = slots[x].device_type_id
             /\ \A y \in DOMAIN slots :
                   /\ slots'[y].is_occupied = slots[y].is_occupied
                   /\ slots'[y].spans_slots = slots[y].spans_slots
                   /\ (y # x => slots'[y] = slots[y])]_vars

\* C6 (narrowing replace frees tail slots): placing a width-1 device on an
\* anchor that holds a width-3 device succeeds, leaves the anchor recording
\* width 1 and the two former continuation slots free.
NarrowingReplaceFreesTail ==
    [][\A x \in DOMAIN slots, d \in DOMAIN device_types :
          (/\ IsAnchor(slots[x]) /\ slots[x].spans_slots = 3
           /\ device_types[d] = 1
           /\ Places(x, d))
          => /\ last'.status = 200
             /\ IsAnchor(slots'[x]) /\ slots'[x].spans_slots = 1
             /\ \A y \in DOMAIN slots :
                   (/\ SameRow(slots[y], slots[x])
                    /\ slots[y].column \in Range(slots[x])
                    /\ y # x)
                   => (~slots'[y].is_occupied /\ slots'[y].spans_slots = 1)]_vars

\* C7 (round trip): removing a device at the slot where it has just been
\* placed gives back the table as it was before the placement, whatever
\* instance fields the placement sent.
PlaceThenRemoveRestores ==
    [][\A x \in DOMAIN slots, d \in DOMAIN device_types :
          (Places(x, d) /\ last'.status = 200)
          => remove_device_from_slot(slots', x) = slots]_vars

\* C8 (free-slot normal form, I5): an unoccupied slot records the default
\* span, no device reference and no instance field.
FreeNormalForm ==
    \A x \in DOMAIN slots :
        ~slots[x].is_occupied =>
            /\ slots[x].spans_slots = 1
            /\ slots[x].device_type_id = NoId
            /\ slots[x].device_label = NoText
            /\ slots[x].current_setting = NoNumber
            /\ slots[x].custom_properties = NoText
            /\ slots[x].installed_date = NoNumber

\* C9 (reference integrity, I4): a slot carries a device reference exactly
\* when it is an Anchor, and a Continuation slot carries no device reference,
\* label, trip-current setting or custom properties.
ReferenceIntegrity ==
    \A x \in DOMAIN slots :
        /\ (slots[x].device_type_id # NoId) <=> IsAnchor(slots[x])
        /\ IsContinuation(slots[x]) =>
              /\ slots[x].device_type_id = NoId
              /\ slots[x].device_label = NoText
              /\ slots[x].current_setting = NoNumber
              /\ slots[x].custom_properties = NoText

\* C10 (row containment, I2): every anchor at column c of recorded width w
\* has c + w - 1 <= slots_per_row, and each column of its range is a slot of
\* the anchor's own row.
RowContainment ==
    \A a \in DOMAIN slots :
        IsAnchor(slots[a]) =>
            /\ slots[a].column + slots[a].spans_slots - 1
                  <= PanelSlotsPerRow(slots[a].panel_id)
            /\ \A c \in Range(slots[a]) :
                  \E x \in DOMAIN slots :
                      SameRow(slots[x], slots[a]) /\ slots[x].column = c

\* C10 witness: a placement has just succeeded whose span of two or more
\* slots ends exactly at the last column of its row.
SpanEndsAtRowEnd ==
    /\ last.op = "place" /\ last.status = 200
    /\ \E x \in DOMAIN slots :
          /\ IsAnchor(slots[x]) /\ slots[x].spans_slots >= 2
          /\ slots[x].column + slots[x].spans_slots - 1
                = PanelSlotsPerRow(slots[x].panel_id)

\* C11 (failure semantics): a place request that is rejected, for whatever
\* reason (slot not found, device not found, row too short, spanned slot
\* occupied), changes no slot of any panel.
RejectedPlaceChangesNothing ==
    [][(nreq' = nreq + 1 /\ last'.op = "place" /\ last'.status # 200)
       => (slots' = slots /\ panels' = panels)]_vars

\* C11 witness: a place request has just been rejected with 400 on a grid
\* that holds a device.
RejectedPlaceOnOccupiedGrid ==
    /\ last.op = "place" /\ last.status = 400
    /\ \E x \in DOMAIN slots : slots[x].is_occupied

\* C12 (idempotent removal): a removal at a slot that is free changes no
\* slot, and a second removal at the slot just removed from changes nothing
\* either.
RemovalIdempotent ==
    [][\A x \in DOMAIN slots :
          Removes(x) =>
             /\ (~slots[x].is_occupied => slots' = slots)
             /\ remove_device_from_slot(slots', x) = slots']_vars

\* C12 witness: the first request handled was a removal, on the grid in which
\* every slot is still free.
RemovedFromFreeSlot ==
    /\ nreq = 1 /\ last.op \in {"remove", "update_remove"} /\ last.status = 200

\* C13 (occupied -> free only by removal of the occupying device): a slot is
\* freed only by a removal request, and a removal request at a slot changes
\* no slot anchoring another device: that device stays occupied with its
\* reference intact.
RemovalSparesOtherDevices ==
    [][/\ (\E y \in DOMAIN slots : slots[y].is_occupied /\ ~slots'[y].is_occupied)
          => \E x \in DOMAIN slots : Removes(x)
       /\ \A x \in DOMAIN slots :
             Removes(x) =>
                \A y \in DOMAIN slots :
                   (y # x /\ IsAnchor(slots[y])) => slots'[y] = slots[y]]_vars

\* C14 (no partial application): the commit between the clean-up and the
\* Anchor/Continuation writes of a placement publishes no grid state of its
\* own: the grid other requests can read after the clean-up step is the grid
\* they could read before it.
CleanUpCommitInvisible ==
    [][\A w \in Workers : ClearStep(w) => slots' = slots]_vars

\* the slots of panel p
SlotsOfPanel(tbl, p) == {x \in DOMAIN tbl : tbl[x].panel_id = p}

\* C15 (cascade): delete_panel removes every slot of the deleted panel from
\* the table, and no other operation removes a slot.
DeletePanelCascades ==
    [][/\ \A p \in DOMAIN panels :
             (DeletePanel(p) /\ last'.status = 200)
             => SlotsOfPanel(slots, p) \cap DOMAIN slots' = {}
       /\ (DOMAIN slots \ DOMAIN slots' # {})
          => \E p \in DOMAIN panels : DeletePanel(p)]_vars

\* C16 (dimensions fixed at creation): every existing panel has rows >= 1 and
\* slots_per_row >= 1 and exactly rows x slots_per_row slots.
PanelSlotCountMatches ==
    \A p \in DOMAIN panels :
        /\ PanelRows(p) >= 1
        /\ PanelSlotsPerRow(p) >= 1
        /\ Cardinality(SlotsOfPanel(slots, p)) = PanelRows(p) * PanelSlotsPerRow(p)

ChangedSlots == {y \in DOMAIN slots : slots'[y] # slots[y]}

RowEndsBeforeSpan(tbl, dts, slot_id, device_type_id) ==
    tbl[slot_id].column + dts[device_type_id] - 1
       > Cardinality({y \in DOMAIN tbl : SameRow(tbl[y], tbl[slot_id])})

\* the span fits the row and one of its slots is occupied
SpanSlotOccupied(tbl, dts, slot_id, device_type_id) ==
    /\ ~RowEndsBeforeSpan(tbl, dts, slot_id, device_type_id)
    /\ \E y \in SpanOf(tbl, dts, slot_id, [device_type_id |-> device_type_id]) :
          tbl[y].is_occupied

PlacesAsAdvised(w) ==
    /\ reqs[w].pc = "advised" /\ reqs[w].can_place
    /\ \E p \in Payloads :
          BeginPlace(w, reqs[w].slot_id, reqs[w].update.device_type_id, p)

\* C20 (re-validation): a place request that follows a can-place query which
\* answered true, sent when a slot of the span has since been occupied by
\* another request, is rejected with status 400 and writes nothing, then or
\* later.
StaleAdviceRejected ==
    [][\A w \in Workers :
          /\ (/\ PlacesAsAdvised(w)
              /\ \E y \in SpanOf(slots, device_types, reqs[w].slot_id,
                                 reqs[w].update) : slots[y].is_occupied)
             => /\ reqs'[w].pc = "done"
                /\ reqs'[w].status = 400
                /\ slots' = slots
          /\ (reqs[w].pc = "done" /\ reqs[w].status = 400)
             => (reqs'[w] = reqs[w] /\ ~ClearStep(w) /\ ~WriteStep(w))]_vars

\* C20 witness: a worker that was advised it could place has had its place
\* request rejected, another worker having written to the grid in between.
StaleAdviceWasRejected ==
    \E w \in Workers :
        /\ reqs[w].pc = "done" /\ reqs[w].status = 400 /\ reqs[w].can_place
        /\ \E y \in SpanOf(slots, device_types, reqs[w].slot_id, reqs[w].update) :
              slots[y].is_occupied

\* C21 (frame): a place or remove request at a slot changes no slot of another
\* panel and no slot of another row of its panel.
OtherRowsUntouched ==
    [][nreq' = nreq + 1
       => \A y \in ChangedSlots :
             \A x \in DOMAIN slots :
                ~SameRow(slots[x], slots[y])
                => /\ last'.op \in {"update_remove", "remove"} => ~Removes(x)
                   /\ last'.op = "place"
                      => \A d \in DOMAIN device_types :
                            ~(/\ slots'[x].device_type_id = d
                              /\ last'.status
                                    = PlaceReply(slots, device_types, x, d).status
                              /\ Places(x, d))]_vars

\* C21 witness: a request on the one panel has just succeeded while the other
\* panel holds a device, and so does a second row.
BothPanelsHoldDevices ==
    /\ last.status = 200 /\ last.op \in {"place", "update_remove", "remove"}
    /\ \E x, y, z \in DOMAIN slots :
          /\ slots[x].is_occupied /\ slots[y].is_occupied /\ slots[z].is_occupied
          /\ slots[x].panel_id # slots[y].panel_id
          /\ slots[x].panel_id = slots[z].panel_id /\ slots[x].row # slots[z].row

\* C22 (pure decision): a can-place query, whatever it answers, changes no
\* slot, panel, panel template or device type.
CanPlaceQueryIsPure ==
    [][(nreq' = nreq + 1 /\ last'.op = "can_place")
       => /\ slots' = slots
          /\ panels' = panels
          /\ templates' = templates
          /\ device_types' = device_types]_vars

\* C22 witness: a can-place query has just answered true on a grid that holds
\* a device.
CanPlaceAnsweredOnPlacedGrid ==
    /\ last.op = "can_place" /\ last.can_place
    /\ \E x \in DOMAIN slots : slots[x].is_occupied

\* the slots of the panel and row of slot x
RowSlots(tbl, x) == {y \in DOMAIN tbl : SameRow(tbl[y], tbl[x])}

\* the 0-based position of slot y in its row, counted by column
Position(tbl, y) ==
    Cardinality({z \in RowSlots(tbl, y) : tbl[z].column < tbl[y].column})

\* the row of x holds w slots from the position of x onward and all are free
FreeRunFrom(tbl, x, w) ==
    LET run == {y \in DOMAIN tbl : /\ SameRow(tbl[y], tbl[x])
                                   /\ tbl[y].column >= tbl[x].column}
    IN  /\ w <= Cardinality(run)
        /\ \A y \in run :
              Cardinality({z \in run : tbl[z].column < tbl[y].column}) < w
              => ~tbl[y].is_occupied

\* C23 (decision): on every grid, for every slot id and device type id,
\* can_place_device_at_slot answers true exactly when the slot exists, the
\* device type exists, and the row holds w free slots from the slot's position
\* onward (a span ending at the last column included), w being the device's
\* width; the width-1 branch agrees with the row scan.
CanPlaceIffFreeRun ==
    \A x \in SlotIdInputs, d \in DeviceIdInputs :
        can_place_device_at_slot(slots, device_types, x, d)
        <=> (/\ x \in DOMAIN slots
             /\ d \in DOMAIN device_types
             /\ FreeRunFrom(slots, x, device_types[d]))

\* C23 witness: a can-place query has just answered, on a grid holding a
\* device, and a device of two or more slots can be placed so that its span
\* ends at the last column of a row.
SpanToLastColumnPlaceable ==
    /\ last.op = "can_place"
    /\ \E z \in DOMAIN slots : slots[z].is_occupied
    /\ \E x \in DOMAIN slots, d \in DOMAIN device_types :
          /\ device_types[d] >= 2
          /\ Position(slots, x) + device_types[d] = Cardinality(RowSlots(slots, x))
          /\ can_place_device_at_slot(slots, device_types, x, d)

\* C24 (placement writes): a successful placement of a device of width w at a
\* slot leaves that slot an occupied anchor of recorded width w holding the
\* device reference, leaves exactly the next w - 1 slots of the row occupied
\* continuations (recorded width 0, no device reference), and changes no other
\* slot; for w = 1 it writes no continuation.
PlacementWritesAnchorAndTail ==
    [][(nreq' = nreq + 1 /\ last'.op = "place" /\ last'.status = 200)
       => \A x \in DOMAIN slots, d \in DOMAIN device_types :
             (slots'[x].device_type_id = d /\ Places(x, d))
             => LET w == device_types[d]
                    tail == {y \in RowSlots(slots, x) :
                                /\ Position(slots, y) > Position(slots, x)
                                /\ Position(slots, y) < Position(slots, x) + w}
                IN  /\ slots'[x].is_occupied
                    /\ slots'[x].spans_slots = w
                    /\ slots'[x].device_type_id = d
                    /\ Cardinality(tail) = w - 1
                    /\ \A y \in tail :
                          /\ slots'[y].is_occupied
                          /\ slots'[y].spans_slots = 0
                          /\ slots'[y].device_type_id = NoId
                    /\ \A y \in DOMAIN slots \ (tail \cup {x}) :
                          slots'[y] = slots[y]]_vars

\* C24 witness: a placement has just succeeded and the grid holds an anchor of
\* width 3 followed by two continuation slots, with a free slot elsewhere.
WidthThreePlaced ==
    /\ last.op = "place" /\ last.status = 200
    /\ \E x \in DOMAIN slots :
          /\ IsAnchor(slots[x]) /\ slots[x].spans_slots = 3
          /\ Cardinality({y \in RowSlots(slots, x) :
                             /\ Position(slots, y) > Position(slots, x)
                             /\ IsContinuation(slots[y])}) = 2
    /\ \E z \in DOMAIN slots : ~slots[z].is_occupied

\* C25 (removal frees the span): after a remove request at an anchor slot of
\* recorded width w at row position i, no slot at positions i .. i + w - 1 of
\* the row (as far as the row goes) is occupied or carries a device reference.
AnchorRemovalFreesSpan ==
    [][(nreq' = nreq + 1 /\ last'.op \in {"remove", "update_remove"})
       => \A x \in DOMAIN slots :
             (IsAnchor(slots[x]) /\ Removes(x))
             => \A y \in RowSlots(slots, x) :
                   (/\ Position(slots, y) >= Position(slots, x)
                    /\ Position(slots, y) < Position(slots, x) + slots[x].spans_slots)
                   => /\ ~slots'[y].is_occupied
                      /\ slots'[y].device_type_id = NoId]_vars

\* C25 witness: a remove request has just succeeded and left the whole grid
\* free, a slot still showing the custom_properties of the device that was
\* anchored there.
AnchorRemovedGridFree ==
    /\ last.op \in {"remove", "update_remove"} /\ last.status = 200
    /\ \A y \in DOMAIN slots : ~slots[y].is_occupied
    /\ \E x \in DOMAIN slots : slots[x].custom_properties # NoText

\* C26 (role changes pass through Free): no single step of a place or remove
\* request changes a slot from anchor to continuation, from continuation to
\* anchor, or from an anchor of one width to an anchor of another.
RoleChangesPassThroughFree ==
    [][\A y \in DOMAIN slots :
          /\ ~(IsAnchor(slots[y]) /\ IsContinuation(slots'[y]))
          /\ ~(IsContinuation(slots[y]) /\ IsAnchor(slots'[y]))
          /\ (IsAnchor(slots[y]) /\ IsAnchor(slots'[y]))
             => slots'[y].spans_slots = slots[y].spans_slots]_vars

\* C27 (widths below 1): a place request naming a device type whose
\* slots_required is below 1 is rejected and changes no slot, and every
\* occupied slot holding a device reference records a width of at least 1.
NonPositiveWidthRejected ==
    [][(nreq' = nreq + 1 /\ last'.op = "place")
       => /\ \A x \in DOMAIN slots, d \in DOMAIN device_types :
                (device_types[d] < 1 /\ Places(x, d))
                => (last'.status # 200 /\ slots' = slots)
          /\ \A y \in DOMAIN slots :
                (slots'[y].is_occupied /\ slots'[y].device_type_id # NoId)
                => slots'[y].spans_slots >= 1]_vars

\* C28 (no orphan continuation): after any sequence of place and remove
\* requests handled one after another with device widths >= 1, every occupied
\* continuation slot lies inside the range [column, column + width) of an
\* anchor to its left in the same row.
NoOrphanContinuation ==
    \A y \in DOMAIN slots :
        IsContinuation(slots[y])
        => \E a \in DOMAIN slots :
              /\ IsAnchor(slots[a])
              /\ SameRow(slots[a], slots[y])
              /\ slots[a].column < slots[y].column
              /\ slots[y].column \in Range(slots[a])

\* C29 (panel visible only when seeded): a get_panel request that finds a
\* panel finds all rows x slots_per_row slots of it.
NoPartialPanelObserved ==
    [][\A p \in DOMAIN panels :
          (GetPanel(p) /\ last'.status = 200)
          => Cardinality(SlotsOfPanel(slots, p))
                = PanelRows(p) * PanelSlotsPerRow(p)]_vars

-----------------------------------------------------------------------------
\* C30: after any sequence of create_wire, update_wire and delete_panel
\* requests, every wire whose source_slot_id or destination_slot_id is set
\* refers to an existing slot that belongs to the wire's own panel_id.
WireEndsInOwnPanel ==
    \A i \in DOMAIN wires :
       \A f \in {"source_slot_id", "destination_slot_id"} :
          wires[i][f] # NoId
          => /\ wires[i][f] \in DOMAIN slots
             /\ slots[wires[i][f]].panel_id = wires[i].panel_id

-----------------------------------------------------------------------------
\* the recorded requests that fall in the minute ending at the i-th one
RecordedInMinuteOf(limiter, i) ==
    {j \in DOMAIN limiter.minute_requests :
        /\ limiter.minute_requests[j] > limiter.minute_requests[i] - Minute
        /\ limiter.minute_requests[j] <= limiter.minute_requests[i]}

\* C31: _make_api_request sends a request only when both rate limits are
\* unexceeded: no more than requests_per_minute recorded requests fall in any
\* one minute, and daily_requests never exceeds requests_per_day between
\* resets.
SendsWithinRateLimits ==
    /\ \A i \in DOMAIN rate_limiter.minute_requests :
          Cardinality(RecordedInMinuteOf(rate_limiter, i))
             <= rate_limiter.requests_per_minute
    /\ now <= rate_limiter.daily_reset_time
       => rate_limiter.daily_requests <= rate_limiter.requests_per_day

====
